---- MODULE Spec2Model ----
(***************************************************************************)
(* A model of probeye's pyro/torch solver (run_pyro_solver) and of the     *)
(* forward-model base class (ForwardModelBase).                            *)
(*                                                                         *)
(* Latent parameters are named 1..NumPrms, the name being the position in  *)
(* which the parameter was declared; the hyperparameter lists range over   *)
(* every graph on these names, so that every pair (declaration order,      *)
(* dependency graph) occurs up to a renaming of the parameters.            *)
(***************************************************************************)
EXTENDS Naturals, Integers, Sequences, FiniteSets, TLC

(***************************************************************************)
(* Bounds                                                                  *)
(***************************************************************************)
NumPrms == 3
MaxRefs == 3
MaxSteps == 2
MaxWarmup == 1
MaxOut == 2
MaxLen == 2
MaxVal == 1
RngMod == 8
MaxNoise == 2
MaxWalkers == 2

Prms == 1..NumPrms
\* the name of a constant (non-latent) parameter, e.g. the 'scale' of a prior
Consts == {0}
Runs == {1, 2}
ObjIds == 1..(1 + Cardinality(Runs))
NoObj == [kind |-> "none"]
NoPair == <<>>

(***************************************************************************)
(* Sequence helpers                                                        *)
(***************************************************************************)
Range(s) == {s[i] : i \in DOMAIN s}

FilterSeq(s, S) == SelectSeq(s, LAMBDA x : x \in S)

\* the list of the values of a function on 1..n
List(f) == f \o <<>>

\* list.index(x): the first position holding x
IndexOf(s, x) == CHOOSE i \in DOMAIN s : s[i] = x /\ \A j \in 1..(i - 1) : s[j] # x

\* lists of pairwise distinct names with at most n entries
DistinctLists(S, n) ==
    {s \in UNION {[1..k -> S] : k \in 0..n} :
        \A i, j \in DOMAIN s : i # j => s[i] # s[j]}

RECURSIVE HyperChoices(_, _, _)
\* all assignments of hyperparameter lists over names to the parameters 1..k
\* that hold at most budget references in total
HyperChoices(names, k, budget) ==
    IF k = 0 THEN {<<>>}
    ELSE UNION {{Append(g, l) : g \in HyperChoices(names, k - 1, budget - Len(l))} :
                 l \in DistinctLists(names, budget)}

RECURSIVE NumRefs(_, _)
NumRefs(h, k) == IF k = 0 THEN 0 ELSE Len(h[k]) + NumRefs(h, k - 1)

(***************************************************************************)
(* State                                                                   *)
(***************************************************************************)
VARIABLES
    latent_prms,       \* problem.parameters.latent_prms, in declaration order
    hyperparameters,   \* per latent parameter: prior.hyperparameters (names)
    problem_ori,       \* the object passed to run_pyro_solver
    heap,              \* object id -> problem object (or NoObj)
    rng,               \* state of the process-wide random generator
    pc,                \* per run: position in run_pyro_solver
    problem,           \* per run: the object the local name problem refers to
    dependency_dict,   \* per run: the ordered dict, a sequence of <<key, list>>
    consistent,        \* per run
    idx_todo,          \* per run: rest of idx_latent_dependencies in the scan
    idx,               \* per run
    key_idx,           \* per run
    dep_todo,          \* per run: rest of dependency_dict[key_idx] to visit
    error,             \* per run: the pair named by the RuntimeError
    priors,            \* per run: keys of the priors dict, in order
    request,           \* per run: the run parameters
    step,              \* per run: number of sampler transitions taken
    theta,             \* per run: the latest get_theta_samples result
    samples,           \* per run: the collected draws
    n_sampled,         \* per run: number of get_theta_samples passes
    n_evaluated,       \* per run: number of forward-model evaluations
    lastSwap,          \* per run: the pair exchanged by the latest swap
    resolved,          \* per run: the orders with which the loop was left
    rstate,            \* per run: the generator owned by an EmceeSolver
    noise_models,      \* problem.noise_models, in the order they were added
    ll,                \* per run: the latest log-likelihood evaluation
    fm,                \* a forward model object (ForwardModelBase instance)
    inp,               \* the input mapping its methods are called with
    outcome,           \* what the latest call on fm returned or raised
    graph              \* the contexts of the forward passes that autograd
                       \* recorded and has not run backward yet

fmVars == <<fm, inp, outcome, graph>>
problemVars == <<latent_prms, hyperparameters, problem_ori, noise_models, fmVars>>
resolverVars == <<dependency_dict, consistent, idx_todo, idx, key_idx,
                  dep_todo, error, lastSwap, resolved>>
samplerVars == <<priors, request, step, theta, samples, n_sampled,
                 n_evaluated, rstate, ll>>
vars == <<latent_prms, hyperparameters, problem_ori, heap, rng, pc, problem,
          dependency_dict, consistent, idx_todo, idx, key_idx, dep_todo,
          error, priors, request, step, theta, samples, n_sampled,
          n_evaluated, lastSwap, rstate, noise_models, ll, fm, inp, outcome,
          graph, resolved>>

(***************************************************************************)
(* The ordered dictionary dependency_dict                                  *)
(***************************************************************************)
Keys(d) == [i \in DOMAIN d |-> d[i][1]]

\* dependency_dict[key]
Lookup(d, key) == d[IndexOf(Keys(d), key)][2]

SwapItemsNone(d, i, j) == d
SwapItemsKeys(d, i, j) ==
    [k \in DOMAIN d |-> IF k = i THEN <<d[j][1], d[i][2]>>
                        ELSE IF k = j THEN <<d[i][1], d[j][2]>> ELSE d[k]]
\* lines 88-91: exchange the items at positions i and j
SwapItems(d, i, j) ==
    [k \in DOMAIN d |-> IF k = i THEN d[j] ELSE IF k = j THEN d[i] ELSE d[k]]

\* lines 61-67: one entry per latent parameter, in declaration order, holding
\* the hyperparameters of its prior that are latent themselves
BuildDependencyDict(lp, hyper) ==
    [i \in DOMAIN lp |-> <<lp[i], FilterSeq(hyper[lp[i]], Range(lp))>>]

\* lines 76-77
IdxLatentDependencies(d) ==
    LET RECURSIVE Collect(_)
        Collect(i) == IF i > Len(d) THEN <<>>
                      ELSE IF Len(d[i][2]) > 0 THEN <<i>> \o Collect(i + 1)
                      ELSE Collect(i + 1)
    IN Collect(1)

IsCircularWrongKey(d, key, dependency) == dependency \in Range(Lookup(d, key))
\* line 81
IsCircular(d, key, dependency) == key \in Range(Lookup(d, dependency))

OutOfOrderFlipped(idx_dependency, i) == idx_dependency < i
OutOfOrderDiffers(idx_dependency, i) == idx_dependency # i
\* line 86
OutOfOrder(idx_dependency, i) == idx_dependency > i


(***************************************************************************)
(* The problem object and its deep copy                                    *)
(***************************************************************************)
\* a problem as assembled by the problem definition: numpy data, noise models
\* without experiments, forward models with the original call method and an
\* empty response_structure (forward_model.py line 57)
FreshProblem ==
    [kind |-> "problem", data |-> "numpy", experiment_names |-> "unassigned",
     call |-> "response", response_structure |-> "empty"]

FreshId(h) == CHOOSE i \in ObjIds : h[i] = NoObj /\ \A j \in 1..(i - 1) : h[j] # NoObj

CopiedRefAlias(ori, new) == ori
\* line 52: the local name problem refers to the new object
CopiedRef(ori, new) == new

Set(f, r, v) == [f EXCEPT ![r] = v]

(***************************************************************************)
(* Sampling primitives                                                     *)
(***************************************************************************)
\* the generator state after one draw
Advance(s) == (s + 1) % RngMod

\* problem.parameters[name].value of a constant parameter
ConstValue(name) == name + 1

RECURSIVE SumSeq(_)
SumSeq(s) == IF s = <<>> THEN 0 ELSE Head(s) + SumSeq(Tail(s))

\* prior_obj.sample(hyperprms_dict): a value determined by the generator
\* state and by the values of the hyperparameters
SamplePrior(u, hyper_values) == (u + SumSeq(hyper_values)) % RngMod

IsSampledNever(name, done) == FALSE
\* line 290: name in pyro_parameter_samples
IsSampled(name, done) == name \in DOMAIN done

\* line 295: problem.parameters[name].value, which a parameter that is not a
\* constant does not hold
ParameterValue(name) == IF name \in Consts THEN ConstValue(name) ELSE 0

RECURSIVE ThetaPass(_, _, _, _)
\* lines 285-298: one pass over the priors in their order; done maps the
\* parameters sampled so far to their samples and to the names of the
\* hyperparameters that were taken from problem.parameters
ThetaPass(order, hyper, s, done) ==
    IF order = <<>> THEN done
    ELSE LET ref_prm == Head(order)
             names == hyper[ref_prm]
             hyperprms == [i \in DOMAIN names |->
                             IF IsSampled(names[i], done) THEN done[names[i]].value
                             ELSE ParameterValue(names[i])]
             value == SamplePrior(s, hyperprms)
             from_problem == {names[i] : i \in {k \in DOMAIN names :
                                                    ~IsSampled(names[k], done)}}
         IN ThetaPass(Tail(order), hyper, Advance(s),
                      [n \in DOMAIN done \cup {ref_prm} |->
                          IF n = ref_prm
                          THEN [value |-> value, from_problem |-> from_problem]
                          ELSE done[n]])

\* the function with empty domain
EmptyMap == [n \in {} |-> 0]

\* line 298: the values of pyro_parameter_samples in insertion order
GetThetaSamples(order, hyper, s) ==
    LET done == ThetaPass(order, hyper, s, EmptyMap)
    IN [i \in DOMAIN order |-> done[order[i]].value]

RECURSIVE AdvanceBy(_, _)
AdvanceBy(s, n) == IF n = 0 THEN s ELSE AdvanceBy(Advance(s), n - 1)

(***************************************************************************)
(* run_pyro_solver, one action per step                                    *)
(***************************************************************************)
\* the statement executed after the straight-line statement at position p
PhaseAfterLate(p) ==
    CASE p = "called" -> "transform"
      [] p = "transform" -> "assign"
      [] p = "assign" -> "build"
      [] p = "build" -> "priors"
      [] p = "while" -> "result"
      [] p = "priors" -> "noise"
      [] p = "noise" -> "bridge"
      [] p = "bridge" -> "mcmc_init"
      [] p = "mcmc_init" -> "mcmc_theta"
      [] p = "mcmc_accept" -> "while"
      [] p = "result" -> "done"

PhaseAfter(p) ==
    CASE p = "called" -> "transform"
      [] p = "transform" -> "assign"
      [] p = "assign" -> "build"
      [] p = "build" -> "while"
      [] p = "while" -> "priors"
      [] p = "priors" -> "noise"
      [] p = "noise" -> "bridge"
      [] p = "bridge" -> "mcmc_init"
      [] p = "mcmc_init" -> "mcmc_theta"
      [] p = "mcmc_accept" -> "result"
      [] p = "result" -> "done"

\* run_pyro_solver(problem_ori, ...) is called
CallRunPyroSolver(r) ==
    /\ pc[r] = "idle"
    /\ pc' = Set(pc, r, "called")
    /\ UNCHANGED <<problemVars, heap, rng, problem, resolverVars, samplerVars>>

\* line 52
DeepCopy(r) ==
    /\ pc[r] = "called"
    /\ LET new == FreshId(heap)
       IN /\ heap' = [heap EXCEPT ![new] = heap[problem_ori]]
          /\ problem' = Set(problem, r, CopiedRef(problem_ori, new))
    /\ pc' = Set(pc, r, PhaseAfter("called"))
    /\ UNCHANGED <<problemVars, rng, resolverVars, samplerVars>>

\* line 53
TransformExperimentalData(r) ==
    /\ pc[r] = "transform"
    /\ heap' = [heap EXCEPT ![problem[r]].data = "tensor"]
    /\ pc' = Set(pc, r, PhaseAfter("transform"))
    /\ UNCHANGED <<problemVars, rng, problem, resolverVars, samplerVars>>

\* line 56
AssignExperimentsToNoiseModels(r) ==
    /\ pc[r] = "assign"
    /\ heap' = [heap EXCEPT ![problem[r]].experiment_names = "assigned"]
    /\ pc' = Set(pc, r, PhaseAfter("assign"))
    /\ UNCHANGED <<problemVars, rng, problem, resolverVars, samplerVars>>

\* lines 61-67 and 73
BuildDict(r) ==
    /\ pc[r] = "build"
    /\ dependency_dict' =
          Set(dependency_dict, r, BuildDependencyDict(latent_prms, hyperparameters))
    /\ consistent' = Set(consistent, r, FALSE)
    /\ pc' = Set(pc, r, PhaseAfter("build"))
    /\ UNCHANGED <<problemVars, heap, rng, problem, idx_todo, idx, key_idx,
                   dep_todo, error, lastSwap, resolved, samplerVars>>

\* lines 74-77: the loop test finds a violation left and starts a scan
StartScan(r) ==
    /\ pc[r] = "while"
    /\ ~consistent[r]
    /\ consistent' = Set(consistent, r, TRUE)
    /\ idx_todo' = Set(idx_todo, r, IdxLatentDependencies(dependency_dict[r]))
    /\ pc' = Set(pc, r, "for_idx")
    /\ UNCHANGED <<problemVars, heap, rng, problem, dependency_dict, idx,
                   key_idx, dep_todo, error, lastSwap, resolved, samplerVars>>

\* line 74: the loop test finds the previous scan consistent
LeaveLoop(r) ==
    /\ pc[r] = "while"
    /\ consistent[r]
    /\ resolved' = Set(resolved, r, Append(resolved[r], Keys(dependency_dict[r])))
    /\ pc' = Set(pc, r, PhaseAfter("while"))
    /\ UNCHANGED <<problemVars, heap, rng, problem, dependency_dict,
                   consistent, idx_todo, idx, key_idx, dep_todo, error,
                   lastSwap, samplerVars>>

\* lines 73-91 once more, on the dictionary the loop was left with
ResolveAgain(r) ==
    /\ pc[r] = PhaseAfter("while")
    /\ Len(resolved[r]) = 1
    /\ consistent' = Set(consistent, r, FALSE)
    /\ lastSwap' = Set(lastSwap, r, NoPair)
    /\ pc' = Set(pc, r, "while")
    /\ UNCHANGED <<problemVars, heap, rng, problem, dependency_dict, idx_todo,
                   idx, key_idx, dep_todo, error, resolved, samplerVars>>

\* lines 78-80: the next index of the scan
NextIdx(r) ==
    /\ pc[r] = "for_idx"
    /\ idx_todo[r] # <<>>
    /\ LET i == Head(idx_todo[r])
           key == Keys(dependency_dict[r])[i]
       IN /\ idx' = Set(idx, r, i)
          /\ key_idx' = Set(key_idx, r, key)
          /\ dep_todo' = Set(dep_todo, r, Lookup(dependency_dict[r], key))
    /\ idx_todo' = Set(idx_todo, r, Tail(idx_todo[r]))
    /\ pc' = Set(pc, r, "for_dep")
    /\ UNCHANGED <<problemVars, heap, rng, problem, dependency_dict,
                   consistent, error, lastSwap, resolved, samplerVars>>

\* line 78: the scan is over
EndScan(r) ==
    /\ pc[r] = "for_idx"
    /\ idx_todo[r] = <<>>
    /\ pc' = Set(pc, r, "while")
    /\ UNCHANGED <<problemVars, heap, rng, problem, resolverVars, samplerVars>>

\* line 80: all dependencies of key_idx were visited
EndDependencies(r) ==
    /\ pc[r] = "for_dep"
    /\ dep_todo[r] = <<>>
    /\ pc' = Set(pc, r, "for_idx")
    /\ UNCHANGED <<problemVars, heap, rng, problem, resolverVars, samplerVars>>

\* lines 81-84
RaiseCircular(r) ==
    /\ pc[r] = "for_dep"
    /\ dep_todo[r] # <<>>
    /\ IsCircular(dependency_dict[r], key_idx[r], Head(dep_todo[r]))
    /\ error' = Set(error, r, <<key_idx[r], Head(dep_todo[r])>>)
    /\ pc' = Set(pc, r, "failed")
    /\ UNCHANGED <<problemVars, heap, rng, problem, dependency_dict,
                   consistent, idx_todo, idx, key_idx, dep_todo, lastSwap,
                   resolved, samplerVars>>

\* lines 85-91: the dependency stands later than position idx
SwapPair(r) ==
    /\ pc[r] = "for_dep"
    /\ dep_todo[r] # <<>>
    /\ ~IsCircular(dependency_dict[r], key_idx[r], Head(dep_todo[r]))
    /\ LET d == dependency_dict[r]
           idx_dependency == IndexOf(Keys(d), Head(dep_todo[r]))
       IN /\ OutOfOrder(idx_dependency, idx[r])
          /\ consistent' = Set(consistent, r, FALSE)
          /\ dependency_dict' =
                Set(dependency_dict, r, SwapItems(d, idx[r], idx_dependency))
          /\ lastSwap' = Set(lastSwap, r, <<d[idx[r]][1], d[idx_dependency][1]>>)
    /\ dep_todo' = Set(dep_todo, r, Tail(dep_todo[r]))
    /\ UNCHANGED <<problemVars, heap, rng, pc, problem, idx_todo, idx,
                   key_idx, error, resolved, samplerVars>>

\* lines 85-86: the dependency does not stand later than position idx
KeepPair(r) ==
    /\ pc[r] = "for_dep"
    /\ dep_todo[r] # <<>>
    /\ ~IsCircular(dependency_dict[r], key_idx[r], Head(dep_todo[r]))
    /\ ~OutOfOrder(IndexOf(Keys(dependency_dict[r]), Head(dep_todo[r])), idx[r])
    /\ dep_todo' = Set(dep_todo, r, Tail(dep_todo[r]))
    /\ UNCHANGED <<problemVars, heap, rng, pc, problem, dependency_dict,
                   consistent, idx_todo, idx, key_idx, error, lastSwap,
                   resolved, samplerVars>>

\* lines 94-98: the priors dict takes the order of dependency_dict
TranslatePriors(r) ==
    /\ pc[r] = "priors"
    /\ priors' = Set(priors, r, Keys(dependency_dict[r]))
    /\ pc' = Set(pc, r, PhaseAfter("priors"))
    /\ UNCHANGED <<problemVars, heap, rng, problem, resolverVars, request,
                   step, theta, samples, n_sampled, n_evaluated, rstate, ll>>

\* lines 101-103
TranslateNoiseModels(r) ==
    /\ pc[r] = "noise"
    /\ pc' = Set(pc, r, PhaseAfter("noise"))
    /\ UNCHANGED <<problemVars, heap, rng, problem, resolverVars, samplerVars>>

\* lines 270-272: the call method of the forward models is replaced
InstallBridge(r) ==
    /\ pc[r] = "bridge"
    /\ heap' = [heap EXCEPT ![problem[r]].call = "bridge"]
    /\ pc' = Set(pc, r, PhaseAfter("bridge"))
    /\ UNCHANGED <<problemVars, rng, problem, resolverVars, samplerVars>>

\* lines 339-341: the sampler is set up with the run parameters, for the
\* given number of walkers
SetUpMcmc(r, n_walkers) ==
    /\ pc[r] = "mcmc_init"
    /\ \E n_steps \in 1..MaxSteps, n_initial_steps \in 0..MaxWarmup :
          request' = Set(request, r,
                         [backend |-> "pyro", n_walkers |-> n_walkers,
                          n_steps |-> n_steps,
                          n_initial_steps |-> n_initial_steps])
    /\ pc' = Set(pc, r, PhaseAfter("mcmc_init"))
    /\ UNCHANGED <<problemVars, heap, rng, problem, resolverVars, priors,
                   step, theta, samples, n_sampled, n_evaluated, rstate, ll>>

\* the run was called without n_walkers: the default of line 23
McmcInit(r) == SetUpMcmc(r, 1)

\* the run was called with several walkers
McmcInitWalkers(r) == \E n_walkers \in 2..MaxWalkers : SetUpMcmc(r, n_walkers)

\* line 335: posterior_model draws theta from the priors
SampleTheta(r) ==
    /\ pc[r] = "mcmc_theta"
    /\ theta' = Set(theta, r, GetThetaSamples(priors[r], hyperparameters, rng))
    /\ rng' = AdvanceBy(rng, Len(priors[r]))
    /\ n_sampled' = Set(n_sampled, r, n_sampled[r] + 1)
    /\ pc' = Set(pc, r, "mcmc_loglike")
    /\ UNCHANGED <<problemVars, heap, problem, resolverVars, priors, request,
                   step, samples, n_evaluated, rstate, ll>>

\* noise_model.experiment_names, as assign_experiments_to_noise_models set it
ExperimentNames(noise_model) == 1..noise_model

\* the latent parameter a noise model takes its standard deviation from
NoisePrm(noise_model) == ((noise_model - 1) % NumPrms) + 1

\* problem.evaluate_model_response(theta, experiment_names)
EvaluateModelResponse(th, experiment_names) ==
    SumSeq(th) * Cardinality(experiment_names)

\* problem.get_parameters(theta, noise_model.prms_def): the problem takes a
\* parameter from theta at the position the parameter has in order, its own
\* order of the latent parameters
GetParameters(th, order, noise_model) == th[IndexOf(order, NoisePrm(noise_model))]

\* noise_model.sample_cond_likelihood(model_response, prms_noise): the
\* log-density of the observations
SampleCondLikelihood(model_response, prms_noise) == model_response + prms_noise + 1

\* the log-density of the trace is the sum over its observed sites
Accumulate(total, contribution) == total + contribution

NoLoglike == [contributions |-> <<>>, total |-> 0]

CurrentNoiseModelLast(nms) == nms[Len(nms)]
\* line 317: the loop variable takes the next noise model of the list
CurrentNoiseModel(nms) == Head(nms)

RECURSIVE LoglikePass(_, _, _, _)
\* lines 317-324: one pass over the noise models in their order
LoglikePass(nms, th, order, acc) ==
    IF nms = <<>> THEN acc
    ELSE LET noise_model == CurrentNoiseModel(nms)
             model_response == EvaluateModelResponse(th, ExperimentNames(noise_model))
             prms_noise == GetParameters(th, order, noise_model)
             contribution == SampleCondLikelihood(model_response, prms_noise)
         IN LoglikePass(Tail(nms), th, order,
                        [contributions |-> Append(acc.contributions,
                                                  <<noise_model, contribution>>),
                         total |-> Accumulate(acc.total, contribution)])

\* line 336: loglike evaluates the forward models through the bridged call,
\* which writes response_structure (lines 182 and forward_model.py 108-113)
Loglike(r) ==
    /\ pc[r] = "mcmc_loglike"
    /\ heap' = [heap EXCEPT ![problem[r]].response_structure = "written"]
    /\ ll' = Set(ll, r, LoglikePass(noise_models, theta[r], latent_prms, NoLoglike))
    /\ n_evaluated' = Set(n_evaluated, r, n_evaluated[r] + 1)
    /\ pc' = Set(pc, r, "mcmc_accept")
    /\ UNCHANGED <<problemVars, rng, problem, resolverVars, priors, request,
                   step, theta, samples, n_sampled, rstate>>

IsWarmupNever(k, warmup_steps) == FALSE
\* line 340: the first warmup_steps transitions of a chain are the warm-up
IsWarmup(k, warmup_steps) == k < warmup_steps

\* line 342: one sampler transition of the current chain; every chain takes
\* warmup_steps + num_samples transitions and keeps the draws after its
\* warm-up
Transition(r) ==
    /\ pc[r] = "mcmc_accept"
    /\ step' = Set(step, r, step[r] + 1)
    /\ LET per_chain == request[r].n_initial_steps + request[r].n_steps
           k == step[r] % per_chain
       IN /\ samples' = Set(samples, r,
                IF IsWarmup(k, request[r].n_initial_steps) THEN samples[r]
                ELSE IF k = 0 \/ k = request[r].n_initial_steps
                THEN Append(samples[r], <<theta[r]>>)
                ELSE [samples[r] EXCEPT ![Len(samples[r])] = Append(@, theta[r])])
          /\ pc' = Set(pc, r,
                IF step[r] + 1 = request[r].n_walkers * per_chain
                THEN PhaseAfter("mcmc_accept") ELSE "mcmc_theta")
    /\ UNCHANGED <<problemVars, heap, rng, problem, resolverVars, priors,
                   request, theta, n_sampled, n_evaluated, rstate, ll>>

\* lines 345-352
ReturnInferenceData(r) ==
    /\ pc[r] = "result"
    /\ pc' = Set(pc, r, PhaseAfter("result"))
    /\ UNCHANGED <<problemVars, heap, rng, problem, resolverVars, samplerVars>>

(***************************************************************************)
(* Numeric values, dictionaries and the forward model                      *)
(***************************************************************************)
\* a number, or an array of numbers; nan tells that some element is not
\* finite (inf or nan), and d then holds 0 in the place of such an element
Scalar(x) == [sc |-> TRUE, d |-> <<x>>, nan |-> FALSE]
Vector(s) == [sc |-> FALSE, d |-> s, nan |-> FALSE]

\* the numbers and the arrays 1, 2, ... the methods are called with
Values ==
    {Scalar(x) : x \in 1..MaxVal} \cup
    {Vector([i \in 1..n |-> i]) : n \in 1..MaxLen}

\* probeye.subroutines.len_or_one
len_or_one(v) == IF v.sc THEN 1 ELSE Len(v.d)

\* a dict is the sequence of its items <<key, value>> in insertion order
DKeys(d) == [i \in DOMAIN d |-> d[i][1]]
DValues(d) == [i \in DOMAIN d |-> d[i][2]]
DHas(d, k) == \E i \in DOMAIN d : d[i][1] = k
DGet(d, k) == d[IndexOf(DKeys(d), k)][2]

Max(a, b) == IF a >= b THEN a ELSE b
Min(a, b) == IF a <= b THEN a ELSE b

\* numpy broadcasting of two operands
BroadcastOk(u, v) ==
    u.sc \/ v.sc \/ Len(u.d) = Len(v.d) \/ Len(u.d) = 1 \/ Len(v.d) = 1

At(u, i) == IF Len(u.d) = 1 THEN u.d[1] ELSE u.d[i]

Times(u, v) ==
    [sc |-> u.sc /\ v.sc,
     d |-> List([i \in 1..Max(Len(u.d), Len(v.d)) |-> At(u, i) * At(v, i)]),
     nan |-> u.nan \/ v.nan]

\* numpy arithmetic on two operands that can be broadcast; the numbers of the
\* model are integers and the quotient is the integer quotient
Plus(u, v) ==
    [sc |-> u.sc /\ v.sc,
     d |-> List([i \in 1..Max(Len(u.d), Len(v.d)) |-> At(u, i) + At(v, i)]),
     nan |-> u.nan \/ v.nan]

Minus(u, v) ==
    [sc |-> u.sc /\ v.sc,
     d |-> List([i \in 1..Max(Len(u.d), Len(v.d)) |-> At(u, i) - At(v, i)]),
     nan |-> u.nan \/ v.nan]

\* a division by zero gives inf or nan and a warning, no exception
Quot(u, v) ==
    IF \E i \in DOMAIN v.d : v.d[i] = 0
    THEN [sc |-> u.sc /\ v.sc,
          d |-> List([i \in 1..Max(Len(u.d), Len(v.d)) |->
                        IF At(v, i) = 0 THEN 0 ELSE At(u, i) \div At(v, i)]),
          nan |-> TRUE]
    ELSE [sc |-> u.sc /\ v.sc,
          d |-> List([i \in 1..Max(Len(u.d), Len(v.d)) |-> At(u, i) \div At(v, i)]),
          nan |-> u.nan \/ v.nan]

InputNames == {"x", "a"}
OutputKinds == {"a", "ax", "pair"}

\* the kinds of response that multiply or divide the parameter and the
\* sensor array element by element
Elementwise == {"ax", "inv"}

\* the names a response of the given kind reads from inp
Reads(kind) == IF kind \in Elementwise THEN {"a", "x"} ELSE {"a"}

\* the value a user model computes for one output sensor
OutputValue(kind, in) ==
    CASE kind = "a" -> DGet(in, "a")
      [] kind = "ax" -> Times(DGet(in, "a"), DGet(in, "x"))
      [] kind = "inv" -> Quot(DGet(in, "a"), DGet(in, "x"))
      [] kind = "pair" -> Vector(<<At(DGet(in, "a"), 1), At(DGet(in, "a"), 1) + 1>>)

\* a response supplied by the user: one value per output sensor
UserResponse(outputs, in) ==
    IF \E i \in DOMAIN outputs : \E k \in Reads(outputs[i][2]) : ~DHas(in, k)
    THEN [status |-> "KeyError"]
    ELSE IF \E i \in DOMAIN outputs :
               outputs[i][2] \in Elementwise
               /\ ~BroadcastOk(DGet(in, "a"), DGet(in, "x"))
    THEN [status |-> "ValueError"]
    ELSE [status |-> "returned",
          value |-> List([i \in DOMAIN outputs |->
                       <<outputs[i][1], OutputValue(outputs[i][2], in)>>])]

\* the dict a response returns holds its items in the order in which the
\* response inserted them: keys[k] is the output sensor of the k-th item
InKeyOrder(res, keys) ==
    IF res.status # "returned" THEN res
    ELSE [status |-> "returned",
          value |-> List([k \in DOMAIN keys |-> res.value[keys[k]]])]

ResponseSilent(model, in) ==
    IF ~model.overrides THEN [status |-> "returned", value |-> <<>>]
    ELSE InKeyOrder(UserResponse(model.outputs, in), model.response_keys)
\* forward_model.py lines 69-88: the base class raises, a subclass computes
Response(model, in) ==
    IF ~model.overrides THEN [status |-> "NotImplementedError"]
    ELSE InKeyOrder(UserResponse(model.outputs, in), model.response_keys)

\* np.sqrt(eps), the unit the step of the difference scheme is counted in
SqrtEps == Scalar(1)

\* forward_model.py line 172
StepOf(x) == Plus(Times(SqrtEps, x), SqrtEps)

\* d[key] = v on the dict d, key being the j-th key
SetItem(d, j, v) ==
    List([k \in DOMAIN d |-> IF k = j THEN <<d[k][1], v>> ELSE d[k]])

InpLeftAliased(in, j, h) == SetItem(in, j, Plus(in[j][2], h))
\* forward_model.py lines 169-174: the copies of inp with one value moved
InpLeft(in, j, h) == SetItem(in, j, Minus(in[j][2], h))
InpRight(in, j, h) == SetItem(in, j, Plus(in[j][2], h))

\* forward_model.py lines 168-181: one pass of the loop over inp.items(); the
\* entries jac_dict[os_name][prm_name] of the j-th input, one per output
Derivatives(model, in, j) ==
    LET h == StepOf(in[j][2])
        dx == Times(Scalar(2), h)
        response_dict_left == Response(model, InpLeft(in, j, h)).value
        response_dict_right == Response(model, InpRight(in, j, h)).value
    IN List([i \in DOMAIN model.outputs |->
               LET os_name == model.outputs[i][1]
               IN Quot(Minus(DGet(response_dict_right, os_name),
                             DGet(response_dict_left, os_name)), dx)])

\* forward_model.py lines 155-182: the default jacobian, or the error of the
\* first response or of a quotient that cannot be broadcast
Jacobian(model, in) ==
    IF in = <<>>
    THEN [status |-> "returned",
          value |-> [i \in DOMAIN model.outputs |-> <<model.outputs[i][1], <<>>>>]]
    ELSE LET res == Response(model, InpLeft(in, 1, StepOf(in[1][2])))
         IN IF res.status # "returned" THEN res
            ELSE IF \E i \in DOMAIN res.value : \E j \in DOMAIN in :
                       ~BroadcastOk(res.value[i][2], in[j][2])
            THEN [status |-> "ValueError"]
            ELSE LET columns == List([j \in DOMAIN in |-> Derivatives(model, in, j)])
                 IN [status |-> "returned",
                     value |-> List([i \in DOMAIN model.outputs |->
                        <<model.outputs[i][1],
                          List([j \in DOMAIN in |-> <<in[j][1], columns[j][i]>>])>>])]

RECURSIVE MaxOf(_)
MaxOf(s) == IF s = <<>> THEN 0 ELSE Max(Head(s), MaxOf(Tail(s)))

\* forward_model.py lines 213-220: the array of shape (n1, n2, n3), or the
\* ValueError of max() or of an assignment jac[i, j, :] = derivative that
\* cannot be broadcast
JacobianDictToArray(model, in, jac_dict) ==
    IF in = <<>> THEN [status |-> "ValueError"]
    ELSE LET n3 == MaxOf([j \in DOMAIN in |-> len_or_one(in[j][2])])
         IN IF \E i \in DOMAIN jac_dict : \E j \in DOMAIN jac_dict[i][2] :
                  LET derivative == jac_dict[i][2][j][2]
                  IN Len(derivative.d) # 1 /\ Len(derivative.d) # n3
            THEN [status |-> "ValueError"]
            ELSE [status |-> "returned",
                  shape |-> <<Len(model.outputs), Len(in), n3>>,
                  arr |-> List([i \in DOMAIN jac_dict |->
                             List([j \in DOMAIN jac_dict[i][2] |->
                                List([e \in 1..n3 |-> At(jac_dict[i][2][j][2], e)])])]),
                  nan |-> {ij \in (DOMAIN jac_dict) \X (DOMAIN in) :
                              jac_dict[ij[1]][2][ij[2]][2].nan}]

\* seq[start:stop] = value on a numpy array, positions counted from 0
AssignOk(size, start, stop, value) ==
    LET len == Max(0, Min(stop, size) - Min(start, size))
    IN value.sc \/ Len(value.d) = len \/ Len(value.d) = 1

AssignSlice(arr, start, stop, value) ==
    List([k \in DOMAIN arr |->
            IF k - 1 >= start /\ k - 1 < stop THEN At(value, k - start) ELSE arr[k]])

RECURSIVE Flatten(_, _, _, _)
\* solver.py lines 176-181: items i, i+1, ... of response_dict are written
\* into arr at i * n3; the result is the array and the structure, or the
\* error of an assignment
Flatten(items, i, n3, acc) ==
    IF items = <<>> THEN acc
    ELSE LET key == Head(items)[1]
             value == Head(items)[2]
             n_elements == len_or_one(value)
             idx_start == i * n3
             idx_end == idx_start + n_elements
         IN IF ~AssignOk(Len(acc.arr), idx_start, idx_end, value)
            THEN [status |-> "ValueError"]
            ELSE Flatten(Tail(items), i + 1, n3,
                         [status |-> "returned",
                          arr |-> AssignSlice(acc.arr, idx_start, idx_end, value),
                          structure |-> Append(acc.structure,
                                               <<key, [n |-> n_elements]>>)])

\* solver.py lines 154-161: the values are given the declared names
ZipInput(model, values) ==
    LET keys == model.input_sensors \o model.prms
    IN List([i \in 1..Min(Len(keys), Len(values)) |-> <<keys[i], values[i]>>])

CallIsOriginalNever(model) == FALSE
\* forward_model.py lines 116-123: self.call is the method of the class as
\* long as no attribute of that name was set on the object
CallIsOriginal(model) == model.call = "response"

ForwardTargetCall(model) == "call"
\* solver.py line 166: the method of the model that forward invokes
ForwardTarget(model) == "response"

\* an invocation of the method of that name from inside forward runs forward
\* again, on the same model and the same values, when the method is the
\* replaced call or __call__, which goes through it
Reenters(model, name) == name \in {"call", "__call__"} /\ ~CallIsOriginal(model)

RECURSIVE JacobianCalls(_)
\* forward_model.py lines 168-177: the methods the default jacobian invokes,
\* two per item of inp
JacobianCalls(in) ==
    IF in = <<>> THEN <<>>
    ELSE <<"response", "response">> \o JacobianCalls(Tail(in))

\* solver.py lines 133-190: Autograd.forward
BridgeForward(model, values) ==
    LET in == ZipInput(model, values)
        Flat(response_dict, jac_numpy, flat) ==
            IF flat.status # "returned" THEN flat
            ELSE [status |-> "returned",
                  value |-> [sc |-> FALSE, d |-> flat.arr,
                             nan |-> \E k \in DOMAIN response_dict.value :
                                        response_dict.value[k][2].nan],
                  response_structure |-> flat.structure,
                  response_dict |-> response_dict.value,
                  shape |-> jac_numpy.shape,
                  jac |-> jac_numpy.arr,
                  jac_nan |-> jac_numpy.nan,
                  calls |-> <<ForwardTarget(model)>> \o JacobianCalls(in),
                  n_inputs |-> Len(values)]
        Dense(response_dict, jac_dict, jac_numpy) ==
            IF response_dict.status # "returned" THEN response_dict
            ELSE IF jac_dict.status # "returned" THEN jac_dict
            ELSE IF jac_numpy.status # "returned" THEN jac_numpy
            ELSE LET n1 == jac_numpy.shape[1]
                     n3 == jac_numpy.shape[3]
                 IN Flat(response_dict, jac_numpy,
                         Flatten(response_dict.value, 0, n3,
                                 [status |-> "returned",
                                  arr |-> [k \in 1..(n1 * n3) |-> 0],
                                  structure |-> <<>>]))
        Evaluated(response_dict, jac_dict) ==
            Dense(response_dict, jac_dict,
                  JacobianDictToArray(model, in, jac_dict.value))
    IN IF Reenters(model, ForwardTarget(model)) THEN [status |-> "RecursionError"]
       ELSE Evaluated(Response(model, in), Jacobian(model, in))

\* solver.py line 238: th.reshape(dl_dy_tuple[0], (shape[0], 1, shape[2]))
Reshape(flat, n1, n3) ==
    List([i \in 1..n1 |-> <<List([e \in 1..n3 |-> flat[(i - 1) * n3 + e]])>>])

\* solver.py line 243: th.transpose(dy_dtheta, 1, 2)
Transpose(t, n1, n2, n3) ==
    List([i \in 1..n1 |-> List([e \in 1..n3 |-> List([j \in 1..n2 |-> t[i][j][e]])])])

\* solver.py line 244: th.matmul of (n1, 1, n3) and (n1, n3, n2) tensors
Matmul(a, b, n1, n2, n3) ==
    List([i \in 1..n1 |->
            <<List([j \in 1..n2 |->
                      SumSeq(List([e \in 1..n3 |-> a[i][1][e] * b[i][e][j]]))])>>])

SumOverSensorsFirst(g, n1, n2) == <<g[1][1]>>
\* solver.py line 253: th.sum(grad_total, dim=0)
SumOverSensors(g, n1, n2) ==
    <<List([j \in 1..n2 |-> SumSeq(List([i \in 1..n1 |-> g[i][1][j]]))])>>

\* the gradient marker None, and a tensor holding a number
NoGradient == [none |-> TRUE]
Tensor(x) == [none |-> FALSE, v |-> x]

GradEntryZero(required, grad) == IF ~required THEN Tensor(0) ELSE Tensor(grad)
\* solver.py line 263
GradEntry(required, grad) == IF ~required THEN NoGradient ELSE Tensor(grad)

\* solver.py lines 231-265: Autograd.backward on the saved Jacobian
Backward(dy_dtheta, shape, dl_dy_0, needs_input_grad) ==
    LET n1 == shape[1]
        n2 == shape[2]
        n3 == shape[3]
        dl_dy == Reshape(dl_dy_0, n1, n3)
        dy_dtheta_transposed == Transpose(dy_dtheta, n1, n2, n3)
        grad_total == SumOverSensors(Matmul(dl_dy, dy_dtheta_transposed, n1, n2, n3),
                                     n1, n2)
        flat == grad_total[1]
    IN List([k \in 1..Min(Len(needs_input_grad), Len(flat)) |->
               GradEntry(needs_input_grad[k], flat[k])])

RECURSIVE Reconstruct(_, _, _)
\* forward_model.py lines 108-113: res_ori[i:i + n_numbers] per key
Reconstruct(structure, res_ori, i) ==
    IF structure = <<>> THEN <<>>
    ELSE LET key == Head(structure)[1]
             n_numbers == Head(structure)[2].n
         IN <<<<key, [sc |-> FALSE, nan |-> res_ori.nan,
                      d |-> SubSeq(res_ori.d, i + 1, Min(i + n_numbers, Len(res_ori.d)))]>>>>
            \o Reconstruct(Tail(structure), res_ori, i + n_numbers)

(***************************************************************************)
(* The methods of a forward model, one action per call                     *)
(***************************************************************************)
runVars == <<latent_prms, hyperparameters, problem_ori, noise_models, heap,
             rng, pc, problem, resolverVars, samplerVars>>

\* model.response(inp)
CallResponse ==
    /\ outcome' = [op |-> "response"] @@ Response(fm, inp)
    /\ UNCHANGED <<fm, inp, runVars, graph>>

\* model.call(inp): the original method, or the bridge installed in its place
CallCall ==
    /\ IF CallIsOriginal(fm)
       THEN /\ outcome' = [op |-> "call", via |-> "response"] @@ Response(fm, inp)
            /\ UNCHANGED fm
       ELSE LET Returned(res) ==
                    /\ outcome' = [op |-> "call", via |-> "bridge"] @@ res
                    /\ fm' = IF res.status = "returned"
                             THEN [fm EXCEPT !.response_structure = res.response_structure]
                             ELSE fm
            IN Returned(BridgeForward(fm, DValues(inp)))
    /\ UNCHANGED <<inp, runVars, graph>>

\* model(inp), forward_model.py lines 90-114
CallDunderCall ==
    /\ IF CallIsOriginal(fm)
       THEN /\ outcome' = [op |-> "__call__", via |-> "response"] @@ Response(fm, inp)
            /\ UNCHANGED fm
       ELSE LET Translated(res_ori) ==
                    IF res_ori.status # "returned"
                    THEN /\ outcome' = [op |-> "__call__", via |-> "bridge"] @@ res_ori
                         /\ UNCHANGED fm
                    ELSE LET res == Reconstruct(res_ori.response_structure,
                                                res_ori.value, 0)
                         IN /\ outcome' = [op |-> "__call__", via |-> "bridge",
                                           status |-> "returned", value |-> res,
                                           response_dict |-> res_ori.response_dict]
                            /\ fm' = [fm EXCEPT !.response_structure = res]
            IN Translated(BridgeForward(fm, DValues(inp)))
    /\ UNCHANGED <<inp, runVars, graph>>

\* model.jacobian(inp)
CallJacobian ==
    /\ outcome' = [op |-> "jacobian"] @@ Jacobian(fm, inp)
    /\ UNCHANGED <<fm, inp, runVars, graph>>

\* model.jacobian_dict_to_array(inp, model.jacobian(inp))
CallJacobianDictToArray ==
    /\ LET jac_dict == Jacobian(fm, inp)
       IN /\ jac_dict.status = "returned"
          /\ outcome' = [op |-> "jacobian_dict_to_array"] @@
                           JacobianDictToArray(fm, inp, jac_dict.value)
    /\ UNCHANGED <<fm, inp, runVars, graph>>

\* the gradients of the objective with respect to the n elements of the
\* vector the forward pass returned
IncomingGradients(n) == {[k \in 1..n |-> 1], [k \in 1..n |-> k]}

\* autograd runs Autograd.backward for the forward pass made through
\* model.call, with the flags of the inputs that require a gradient
CallBackward ==
    /\ outcome.op = "call"
    /\ outcome.via = "bridge"
    /\ outcome.status = "returned"
    /\ \E dl_dy \in IncomingGradients(outcome.shape[1] * outcome.shape[3]),
          needs_input_grad \in [1..outcome.n_inputs -> BOOLEAN] :
          outcome' = [op |-> "backward", via |-> "bridge", status |-> "returned",
                      jac |-> outcome.jac, shape |-> outcome.shape,
                      n_inputs |-> outcome.n_inputs, dl_dy |-> dl_dy,
                      needs_input_grad |-> needs_input_grad,
                      value |-> Backward(outcome.jac, outcome.shape, dl_dy,
                                         needs_input_grad)]
    /\ UNCHANGED <<fm, inp, runVars, graph>>

\* solver.py line 237: dy_dtheta.size()
Size(t) == <<Len(t), Len(t[1]), Len(t[1][1])>>

\* the likelihood calls a bridged forward model of the problem with tensors
\* that require a gradient: autograd keeps the context of the forward pass,
\* with the tensors saved in it (solver.py line 189), until its backward pass
ApplyWithGrad(model, in) ==
    /\ Len(graph) < MaxNoise
    /\ LET res == BridgeForward(model, DValues(in))
       IN /\ res.status = "returned"
          /\ fm' = [model EXCEPT !.response_structure = res.response_structure]
          /\ inp' = in
          /\ outcome' = [op |-> "call", via |-> "bridge"] @@ res
          /\ graph' = Append(graph, [saved_tensors |-> <<res.jac>>,
                                     forward_model |-> model, inp |-> in])
    /\ UNCHANGED runVars

SavedTensorsLatest(g, k) == g[Len(g)].saved_tensors
\* solver.py line 231: ctx is the context of the forward pass whose backward
\* pass this is
SavedTensors(g, k) == g[k].saved_tensors

\* autograd runs the backward pass of one of the recorded forward passes,
\* with the flags of the inputs that require a gradient
BackwardOn(k) ==
    /\ k \in DOMAIN graph
    /\ LET dy_dtheta == SavedTensors(graph, k)[1]
           shape == Size(dy_dtheta)
       IN \E dl_dy \in IncomingGradients(shape[1] * shape[3]),
             needs_input_grad \in [1..shape[2] -> BOOLEAN] :
             outcome' = [op |-> "backward", via |-> "bridge", status |-> "returned",
                         jac |-> dy_dtheta, shape |-> shape, n_inputs |-> shape[2],
                         dl_dy |-> dl_dy, needs_input_grad |-> needs_input_grad,
                         value |-> Backward(dy_dtheta, shape, dl_dy, needs_input_grad),
                         ctx |-> graph[k]]
    /\ graph' = [i \in 1..(Len(graph) - 1) |->
                    IF i < k THEN graph[i] ELSE graph[i + 1]]
    /\ UNCHANGED <<fm, inp, runVars>>

\* solver.py lines 270-272 on this forward model
ReplaceCall ==
    /\ fm.call = "response"
    /\ fm' = [fm EXCEPT !.call = "bridge"]
    /\ UNCHANGED <<inp, outcome, runVars, graph>>

(***************************************************************************)
(* The emcee backend: EmceeSolver(problem, seed).run(n_walkers, n_steps)   *)
(***************************************************************************)
Seeds == {1, 2}

\* the state of a generator seeded with seed
SeedState(seed) == seed % RngMod

\* one ensemble move: a position for every latent parameter
EmceeDraw(lp, s) == [i \in DOMAIN lp |-> (s + i) % RngMod]

\* the solver is built with its seed and run; the run seeds its generator
CallEmceeSolver(r) ==
    /\ pc[r] = "idle"
    /\ \E seed \in Seeds, n_steps \in 1..MaxSteps :
          /\ request' = Set(request, r,
                            [backend |-> "emcee", seed |-> seed,
                             n_steps |-> n_steps])
          /\ rstate' = Set(rstate, r, SeedState(seed))
    /\ pc' = Set(pc, r, "emcee_run")
    /\ UNCHANGED <<problemVars, heap, rng, problem, resolverVars, priors,
                   step, theta, samples, n_sampled, n_evaluated, ll>>

\* one step of the ensemble sampler
EmceeStep(r) ==
    /\ pc[r] = "emcee_run"
    /\ samples' = Set(samples, r, Append(samples[r], EmceeDraw(latent_prms, rstate[r])))
    /\ rstate' = Set(rstate, r, Advance(rstate[r]))
    /\ step' = Set(step, r, step[r] + 1)
    /\ pc' = Set(pc, r, IF step[r] + 1 = request[r].n_steps THEN "done" ELSE "emcee_run")
    /\ UNCHANGED <<problemVars, heap, rng, problem, resolverVars, priors,
                   request, theta, n_sampled, n_evaluated, ll>>

(***************************************************************************)
(* Specifications                                                          *)
(***************************************************************************)
NoRequest == [backend |-> "none"]

InitRunState ==
    /\ problem_ori = 1
    /\ heap = [i \in ObjIds |-> IF i = 1 THEN FreshProblem ELSE NoObj]
    /\ rng = 0
    /\ problem = [r \in Runs |-> 0]
    /\ dependency_dict = [r \in Runs |-> <<>>]
    /\ consistent = [r \in Runs |-> FALSE]
    /\ idx_todo = [r \in Runs |-> <<>>]
    /\ idx = [r \in Runs |-> 0]
    /\ key_idx = [r \in Runs |-> 0]
    /\ dep_todo = [r \in Runs |-> <<>>]
    /\ error = [r \in Runs |-> NoPair]
    /\ lastSwap = [r \in Runs |-> NoPair]
    /\ resolved = [r \in Runs |-> <<>>]
    /\ priors = [r \in Runs |-> <<>>]
    /\ request = [r \in Runs |-> NoRequest]
    /\ step = [r \in Runs |-> 0]
    /\ theta = [r \in Runs |-> <<>>]
    /\ samples = [r \in Runs |-> <<>>]
    /\ n_sampled = [r \in Runs |-> 0]
    /\ n_evaluated = [r \in Runs |-> 0]
    /\ rstate = [r \in Runs |-> 0]
    /\ ll = [r \in Runs |-> NoLoglike]

\* the forward model of the problem is not called directly
InitNoCalls ==
    /\ fm = [overrides |-> TRUE, input_sensors |-> <<"x">>, prms |-> <<"a">>,
             outputs |-> <<<<1, "ax">>>>, response_keys |-> <<1>>,
             call |-> "response", response_structure |-> <<>>]
    /\ inp = <<>>
    /\ outcome = [op |-> "none"]
    /\ graph = <<>>

\* one solver run on any problem within the bounds
Init ==
    /\ latent_prms = [i \in Prms |-> i]
    /\ hyperparameters \in HyperChoices(Prms \cup Consts, NumPrms, MaxRefs)
    /\ pc = [r \in Runs |-> IF r = 1 THEN "idle" ELSE "unused"]
    /\ InitRunState
    /\ noise_models = <<1>>
    /\ InitNoCalls

PyroStep(r) ==
    \/ CallRunPyroSolver(r)
    \/ DeepCopy(r)
    \/ TransformExperimentalData(r)
    \/ AssignExperimentsToNoiseModels(r)
    \/ BuildDict(r)
    \/ StartScan(r)
    \/ LeaveLoop(r)
    \/ NextIdx(r)
    \/ EndScan(r)
    \/ EndDependencies(r)
    \/ RaiseCircular(r)
    \/ SwapPair(r)
    \/ KeepPair(r)
    \/ TranslatePriors(r)
    \/ TranslateNoiseModels(r)
    \/ InstallBridge(r)
    \/ McmcInit(r)
    \/ SampleTheta(r)
    \/ Loglike(r)
    \/ Transition(r)
    \/ ReturnInferenceData(r)

Next == \E r \in Runs : PyroStep(r)

Spec == Init /\ [][Next]_vars

\* the run up to the end of the resolver loop, on any dependency graph of
\* the latent parameters within the bounds
InitResolve ==
    /\ latent_prms = [i \in Prms |-> i]
    /\ hyperparameters \in HyperChoices(Prms, NumPrms, MaxRefs)
    /\ pc = [r \in Runs |-> IF r = 1 THEN "idle" ELSE "unused"]
    /\ InitRunState
    /\ noise_models = <<1>>
    /\ InitNoCalls

NextResolve ==
    \E r \in Runs :
        \/ CallRunPyroSolver(r)
        \/ DeepCopy(r)
        \/ TransformExperimentalData(r)
        \/ AssignExperimentsToNoiseModels(r)
        \/ BuildDict(r)
        \/ StartScan(r)
        \/ LeaveLoop(r)
        \/ NextIdx(r)
        \/ EndScan(r)
        \/ EndDependencies(r)
        \/ RaiseCircular(r)
        \/ SwapPair(r)
        \/ KeepPair(r)

\* a run that can take a step takes one: the interpreter does not stop
FairSpec == InitResolve /\ [][NextResolve]_vars /\ WF_vars(NextResolve)

\* the resolver loop, and the loop once more on the order it returned
NextRerun == NextResolve \/ \E r \in Runs : ResolveAgain(r)

SpecRerun == InitResolve /\ [][NextRerun]_vars


\* the priors of the problems two runs are started on: the hierarchical
\* prior of test_prior_calibration.py (lines 108-127) with the location
\* declared before or after the parameter that references it, and a pair of
\* priors that reference each other
TwoRunProblems ==
    {[p \in Prms |-> IF p = 2 THEN <<1, 0>> ELSE <<>>],
     [p \in Prms |-> IF p = 1 THEN <<2, 0>> ELSE <<>>],
     [p \in Prms |-> IF p = 1 THEN <<2>> ELSE IF p = 2 THEN <<1>> ELSE <<>>]}

\* two solver runs on the same problem object, with either backend, in any
\* interleaving
InitRuns ==
    /\ latent_prms = [i \in Prms |-> i]
    /\ hyperparameters \in TwoRunProblems
    /\ pc = [r \in Runs |-> "idle"]
    /\ InitRunState
    /\ noise_models = <<1>>
    /\ InitNoCalls

EmceeRun(r) ==
    \/ CallEmceeSolver(r)
    \/ EmceeStep(r)

NextRuns == \E r \in Runs : PyroStep(r) \/ EmceeRun(r)

SpecRuns == InitRuns /\ [][NextRuns]_vars

\* the orders in which 1..n noise models were added to the problem
NoiseOrders ==
    UNION {{s \in [1..n -> 1..n] : \A i, j \in 1..n : i # j => s[i] # s[j]} :
             n \in 1..MaxNoise}

\* one solver run with any number of walkers on a problem with a
\* hierarchical prior and with any noise models within the bounds
InitSampling ==
    /\ latent_prms = [i \in Prms |-> i]
    /\ hyperparameters \in TwoRunProblems
    /\ noise_models \in NoiseOrders
    /\ pc = [r \in Runs |-> IF r = 1 THEN "idle" ELSE "unused"]
    /\ InitRunState
    /\ InitNoCalls

NextSampling == \E r \in Runs : PyroStep(r) \/ McmcInitWalkers(r)

SpecSampling == InitSampling /\ [][NextSampling]_vars

\* the ordered input mappings over the names in S
RECURSIVE Mappings(_)
Mappings(S) ==
    IF S = {} THEN {<<>>}
    ELSE UNION {{<<<<k, v>>>> \o m : v \in Values, m \in Mappings(S \ {k})} : k \in S}

\* the output sensors 1..n of a model, each with the kind of its response
OutputChoices ==
    UNION {{[i \in 1..n |-> <<i, kinds[i]>>] : kinds \in [1..n -> OutputKinds]} :
             n \in 1..MaxOut}

\* a forward model as constructed (forward_model.py lines 43-57), called with
\* one input mapping; its response returns the outputs in declaration order
ForwardModels ==
    {[overrides |-> TRUE, input_sensors |-> <<"x">>, prms |-> <<"a">>,
      outputs |-> outputs, response_keys |-> [i \in DOMAIN outputs |-> i],
      call |-> "response", response_structure |-> <<>>] :
        outputs \in OutputChoices}
    \cup
    {[overrides |-> FALSE, input_sensors |-> <<"x">>, prms |-> <<"a">>,
      outputs |-> [i \in 1..n |-> <<i, "a">>],
      response_keys |-> [i \in 1..n |-> i], call |-> "response",
      response_structure |-> <<>>] : n \in 1..MaxOut}

InputMappings == UNION {Mappings(S) : S \in SUBSET InputNames}

InitFM ==
    /\ fm \in ForwardModels
    /\ inp \in InputMappings
    /\ outcome = [op |-> "none"]
    /\ graph = <<>>
    /\ latent_prms = [i \in Prms |-> i]
    /\ hyperparameters = [i \in Prms |-> <<>>]
    /\ pc = [r \in Runs |-> "unused"]
    /\ InitRunState
    /\ noise_models = <<1>>

NextFM ==
    \/ CallResponse
    \/ CallCall
    \/ CallDunderCall
    \/ CallJacobian
    \/ ReplaceCall

SpecFM == InitFM /\ [][NextFM]_vars

\* the bridged forward model in the gradient computation of the sampler:
\* forward pass, dense Jacobian and backward pass
InitGrad ==
    /\ fm \in {[model EXCEPT !.call = "bridge"] :
                  model \in {m \in ForwardModels : m.overrides}}
    /\ inp \in InputMappings
    /\ outcome = [op |-> "none"]
    /\ graph = <<>>
    /\ latent_prms = [i \in Prms |-> i]
    /\ hyperparameters = [i \in Prms |-> <<>>]
    /\ pc = [r \in Runs |-> "unused"]
    /\ InitRunState
    /\ noise_models = <<1>>

NextGrad ==
    \/ CallCall
    \/ CallJacobianDictToArray
    \/ CallBackward

SpecGrad == InitGrad /\ [][NextGrad]_vars

\* the forward models of a problem with two of them, each with the bridge
\* installed by its own translate_forward_model call
ProblemModels ==
    {[model EXCEPT !.call = "bridge"] :
        model \in {m \in ForwardModels :
                      m.overrides /\ m.outputs \in {<<<<1, "ax">>>>,
                                                     <<<<1, "a">>, <<2, "ax">>>>}}}

\* the inputs of the experiments: a sensor array of any length and the
\* parameter
ExperimentInputs ==
    {<<<<"x", Vector([i \in 1..n |-> i])>>, <<"a", Scalar(1)>>>> : n \in 1..MaxLen}

\* the gradient computation of one log-density: forward passes of the
\* forward models, then their backward passes
InitAutograd ==
    /\ fm \in ProblemModels
    /\ inp \in ExperimentInputs
    /\ outcome = [op |-> "none"]
    /\ graph = <<>>
    /\ latent_prms = [i \in Prms |-> i]
    /\ hyperparameters = [i \in Prms |-> <<>>]
    /\ pc = [r \in Runs |-> "unused"]
    /\ InitRunState
    /\ noise_models = <<1>>

NextAutograd ==
    \/ \E model \in ProblemModels, in \in ExperimentInputs : ApplyWithGrad(model, in)
    \/ \E k \in DOMAIN graph : BackwardOn(k)

SpecAutograd == InitAutograd /\ [][NextAutograd]_vars

\* the numbers and the arrays x, x + 1, ... that start below zero or above
SignedValues ==
    {Scalar(x) : x \in (0 - 1)..MaxVal} \cup
    {Vector([i \in 1..n |-> x + i - 1]) : x \in (0 - 1)..MaxVal, n \in 1..MaxLen}

\* the bridged forward models that multiply or divide element by element
ElementwiseModels ==
    UNION {{[overrides |-> TRUE, input_sensors |-> <<"x">>, prms |-> <<"a">>,
             outputs |-> [i \in 1..n |-> <<i, kinds[i]>>],
             response_keys |-> [i \in 1..n |-> i], call |-> "bridge",
             response_structure |-> <<>>] : kinds \in [1..n -> Elementwise]} :
             n \in 1..MaxOut}

\* the bridge and the default jacobian on inputs of either sign
InitNumeric ==
    /\ fm \in ElementwiseModels
    /\ inp \in {<<<<"x", x>>, <<"a", a>>>> : x \in SignedValues, a \in SignedValues}
    /\ outcome = [op |-> "none"]
    /\ graph = <<>>
    /\ latent_prms = [i \in Prms |-> i]
    /\ hyperparameters = [i \in Prms |-> <<>>]
    /\ pc = [r \in Runs |-> "unused"]
    /\ InitRunState
    /\ noise_models = <<1>>

NextNumeric ==
    \/ CallCall
    \/ CallJacobian
    \/ CallJacobianDictToArray

SpecNumeric == InitNumeric /\ [][NextNumeric]_vars

\* the orders in which a response can insert n output names into its dict
KeyOrders(n) == {s \in [1..n -> 1..n] : \A i, j \in 1..n : i # j => s[i] # s[j]}

\* the bridged forward models whose response fills its dict in any order
BridgedModels ==
    UNION {{[model EXCEPT !.call = "bridge", !.response_keys = keys] :
               keys \in KeyOrders(Len(model.outputs))} :
             model \in {m \in ForwardModels : m.overrides}}

\* the bridge on forward models with any key order of the response
InitBridge ==
    /\ fm \in BridgedModels
    /\ inp \in InputMappings
    /\ outcome = [op |-> "none"]
    /\ graph = <<>>
    /\ latent_prms = [i \in Prms |-> i]
    /\ hyperparameters = [i \in Prms |-> <<>>]
    /\ pc = [r \in Runs |-> "unused"]
    /\ InitRunState
    /\ noise_models = <<1>>

NextBridge ==
    \/ CallCall
    \/ CallDunderCall
    \/ CallJacobianDictToArray

SpecBridge == InitBridge /\ [][NextBridge]_vars

(***************************************************************************)
(* The dependency graph of the priors                                      *)
(***************************************************************************)
\* the latent parameters referenced by the prior of p
LatentDeps(p) == Range(hyperparameters[p]) \cap Range(latent_prms)

RECURSIVE ReachFrom(_, _)
ReachFrom(S, n) ==
    IF n = 0 THEN S
    ELSE ReachFrom(S \cup UNION {LatentDeps(p) : p \in S}, n - 1)

\* the parameters p depends on, directly or through other priors
DependsOn(p) == ReachFrom(LatentDeps(p), NumPrms)

HasCycle == \E p \in Prms : p \in DependsOn(p)
Acyclic == ~HasCycle
Mutual(a, b) == a \in LatentDeps(b) /\ b \in LatentDeps(a)
CircularPairs == {pair \in Prms \X Prms : Mutual(pair[1], pair[2])}

Order(r) == Keys(dependency_dict[r])
LoopFinished(r) ==
    pc[r] \in {"priors", "noise", "bridge", "mcmc_init", "mcmc_theta",
               "mcmc_loglike", "mcmc_accept", "result", "done"}
DependenciesFirst(r) ==
    \A p \in Prms : \A q \in LatentDeps(p) :
        IndexOf(Order(r), q) < IndexOf(Order(r), p)

(***************************************************************************)
(* Claims                                                                  *)
(***************************************************************************)
\* C1: for an acyclic dependency graph, once the resolver loop has finished
\* every latent parameter referenced by a prior stands earlier in the order
\* than the parameter whose prior references it.
C1_DependenciesFirst ==
    \A r \in Runs : (Acyclic /\ LoopFinished(r)) => DependenciesFirst(r)

C1_Witness ==
    /\ Acyclic
    /\ pc[1] = "done"
    /\ lastSwap[1] # NoPair
    /\ Order(1) # latent_prms

\* C2 as stated: two parameters that reference each other make the
\* resolution fail with the circular-dependency error, the error names
\* exactly these two, and no order is returned.
C2_Original ==
    /\ [](\A r \in Runs : \A a, b \in Prms :
            a # b /\ Mutual(a, b) =>
                /\ ~LoopFinished(r)
                /\ (pc[r] = "failed" => Range(error[r]) = {a, b}))
    /\ \A r \in Runs :
          ((\E a, b \in Prms : a # b /\ Mutual(a, b)) /\ pc[r] = "while")
              ~> (pc[r] = "failed")

\* C2 amended: two parameters that reference each other make the resolution
\* fail with the circular-dependency error and no order is returned; the
\* error names two parameters each of which references the other, and these
\* are A and B when no other such pair and no self-reference exists.
C2_Amended ==
    /\ [](\A r \in Runs : \A a, b \in Prms :
            a # b /\ Mutual(a, b) =>
                /\ ~LoopFinished(r)
                /\ (pc[r] = "failed" =>
                      /\ <<error[r][1], error[r][2]>> \in CircularPairs
                      /\ (CircularPairs = {<<a, b>>, <<b, a>>} =>
                            Range(error[r]) = {a, b})))
    /\ \A r \in Runs :
          ((\E a, b \in Prms : a # b /\ Mutual(a, b)) /\ pc[r] = "while")
              ~> (pc[r] = "failed")

C2_Witness ==
    /\ pc[1] = "failed"
    /\ \E a, b \in Prms :
          /\ a # b
          /\ Mutual(a, b)
          /\ CircularPairs = {<<a, b>>, <<b, a>>}
          /\ Range(error[1]) = {a, b}

\* C3: for an acyclic dependency graph the swap-until-consistent loop
\* terminates: having entered the loop, the run leaves it.
C3_Terminates ==
    \A r \in Runs : (Acyclic /\ pc[r] = "while") ~> (pc[r] = "priors")

C3_Witness ==
    /\ Acyclic
    /\ pc[1] = "priors"
    /\ lastSwap[1] # NoPair
    /\ NumRefs(hyperparameters, NumPrms) >= 2
    /\ DependenciesFirst(1)

\* C4 as stated: a dependency graph with a cycle of any length makes the
\* resolution end with the circular-dependency error: no order is returned
\* and the loop does not run forever.
C4_CycleFails ==
    \A r \in Runs :
        /\ [](HasCycle => ~LoopFinished(r))
        /\ (HasCycle /\ pc[r] = "while") ~> (pc[r] = "failed")

\* C5: when a run fails with the circular-dependency error, no prior has
\* been sampled, no forward model evaluated and no sampler transition taken.
C5_FailsBeforeSampling ==
    \A r \in Runs :
        pc[r] = "failed" =>
            /\ n_sampled[r] = 0
            /\ n_evaluated[r] = 0
            /\ step[r] = 0
            /\ samples[r] = <<>>

C5_Witness ==
    /\ pc[1] = "failed"
    /\ error[1] # NoPair
    /\ heap[problem[1]].experiment_names = "assigned"
    /\ n_sampled[1] = 0

\* C6: the problem object given to run_pyro_solver is never changed; the
\* conversion of the data, the experiment assignment, the replaced call and
\* the written response_structure are found on the copy of the run only.
C6_OriginalUnchanged ==
    /\ heap[problem_ori] = FreshProblem
    /\ \A r \in Runs :
          /\ pc[r] \in {"done", "failed"} /\ request[r].backend # "emcee" =>
                /\ problem[r] # problem_ori
                /\ heap[problem[r]].data = "tensor"
                /\ heap[problem[r]].experiment_names = "assigned"
          /\ pc[r] = "done" /\ request[r].backend = "pyro" =>
                /\ heap[problem[r]].call = "bridge"
                /\ heap[problem[r]].response_structure = "written"

C6_Witness ==
    /\ pc[1] = "done"
    /\ problem[1] # problem_ori
    /\ heap[problem[1]].data = "tensor"
    /\ heap[problem[1]].call = "bridge"
    /\ heap[problem[1]].response_structure = "written"

\* what belongs to one run: its position, its local names and its copy
RunView(r) ==
    <<pc[r], problem[r], IF problem[r] = 0 THEN NoObj ELSE heap[problem[r]],
      dependency_dict[r], consistent[r], idx_todo[r], idx[r], key_idx[r],
      dep_todo[r], error[r], priors[r], request[r], step[r], theta[r],
      samples[r], n_sampled[r], n_evaluated[r], rstate[r], ll[r],
      lastSwap[r], resolved[r]>>

C9_Deterministic ==
    \A r, s \in Runs :
        (pc[r] = "done" /\ pc[s] = "done" /\ request[r] = request[s]) =>
            samples[r] = samples[s]


\* the numbers held under every key
SameMapping(d, e) ==
    /\ DKeys(d) = DKeys(e)
    /\ \A i \in DOMAIN d : d[i][2].d = e[i][2].d

\* C8 as stated: what __call__ rebuilds from the flattened vector through
\* response_structure is the mapping the response returned: the same keys
\* and per key the same values.
C8_RoundTrip ==
    (outcome.op = "__call__" /\ outcome.via = "bridge" /\ outcome.status = "returned")
        => SameMapping(outcome.value, outcome.response_dict)

\* C10 as stated: on a forward model without a response of its own,
\* response, call, __call__ and the default jacobian raise
\* NotImplementedError on every input, return nothing and leave
\* response_structure as it was.
C10_Original ==
    (~fm.overrides /\ outcome.op \in {"response", "call", "__call__", "jacobian"})
        => /\ outcome.status = "NotImplementedError"
           /\ "value" \notin DOMAIN outcome
           /\ fm.response_structure = <<>>

\* C10 amended: response, call and __call__ raise NotImplementedError on
\* every input, and so does the default jacobian on every input mapping that
\* is not empty; nothing is returned and response_structure stays as it was.
\* On the empty mapping the default jacobian returns an empty entry per
\* output sensor.
C10_Amended ==
    (~fm.overrides /\ outcome.op \in {"response", "call", "__call__", "jacobian"})
        => /\ fm.response_structure = <<>>
           /\ IF outcome.op = "jacobian" /\ inp = <<>>
              THEN /\ outcome.status = "returned"
                   /\ outcome.value = [i \in DOMAIN fm.outputs |-> <<fm.outputs[i][1], <<>>>>]
              ELSE /\ outcome.status = "NotImplementedError"
                   /\ "value" \notin DOMAIN outcome

C10_Witness ==
    /\ ~fm.overrides
    /\ fm.call = "bridge"
    /\ outcome.op = "__call__"
    /\ outcome.status = "NotImplementedError"
    /\ Len(inp) = 2

\* C11: as long as call was not overwritten, model(inp) returns or raises
\* exactly what response(inp) does, whatever response_structure holds, and
\* leaves the forward model, response_structure included, as it was.
C11_CallIsResponse ==
    [][(CallDunderCall /\ fm.call = "response") =>
          /\ outcome' = [op |-> "__call__", via |-> "response"] @@
                           Response([fm EXCEPT !.response_structure = <<>>], inp)
          /\ fm' = fm]_vars

C11_Witness ==
    /\ fm.call = "response"
    /\ outcome.op = "__call__"
    /\ outcome.via = "response"
    /\ outcome.status = "returned"
    /\ Len(outcome.value) = 2
    /\ fm.response_structure = <<>>

\* C12: for every name of the input mapping and every output sensor the
\* default jacobian returns (response(x+h)[sensor] - response(x-h)[sensor])
\* / (2h) with h = sqrt(eps) * x + sqrt(eps), the two evaluations differing
\* from the given input in that one value only.
C12_CentralDifference ==
    (outcome.op = "jacobian" /\ outcome.status = "returned") =>
        /\ DKeys(outcome.value) = DKeys(fm.outputs)
        /\ \A i \in DOMAIN outcome.value :
              LET os_name == outcome.value[i][1]
                  gradient == outcome.value[i][2]
              IN /\ DKeys(gradient) = DKeys(inp)
                 /\ \A j \in DOMAIN inp :
                       LET x == inp[j][2]
                           h == Plus(Times(SqrtEps, x), SqrtEps)
                           lower == [k \in DOMAIN inp |->
                                       IF k = j THEN <<inp[k][1], Minus(x, h)>>
                                       ELSE inp[k]]
                           upper == [k \in DOMAIN inp |->
                                       IF k = j THEN <<inp[k][1], Plus(x, h)>>
                                       ELSE inp[k]]
                       IN gradient[j][2] =
                            Quot(Minus(DGet(UserResponse(fm.outputs, upper).value, os_name),
                                       DGet(UserResponse(fm.outputs, lower).value, os_name)),
                                 Plus(h, h))

C12_Witness ==
    /\ outcome.op = "jacobian"
    /\ outcome.status = "returned"
    /\ Len(inp) = 2
    /\ Len(fm.outputs) = 2
    /\ \E i \in DOMAIN outcome.value : \E j \in DOMAIN inp :
          \E e \in DOMAIN outcome.value[i][2][j][2].d :
              outcome.value[i][2][j][2].d[e] # 0

\* the derivative followed by zeros up to n elements
ZeroPadded(derivative, n) ==
    [e \in 1..n |-> IF e <= Len(derivative.d) THEN derivative.d[e] ELSE 0]

\* C13 as stated: jacobian_dict_to_array returns an array of shape (outputs,
\* inputs, largest input arity) whose entry [i, j, :] is the derivative of
\* output i with respect to input j, followed by zeros when the derivative
\* has fewer elements than the largest input arity.
C13_ZeroPadded ==
    (outcome.op = "jacobian_dict_to_array" /\ outcome.status = "returned") =>
        LET jac_dict == Jacobian(fm, inp).value
            n3 == MaxOf([j \in DOMAIN inp |-> len_or_one(inp[j][2])])
        IN /\ outcome.shape = <<Len(fm.outputs), Len(inp), n3>>
           /\ \A i \in DOMAIN fm.outputs : \A j \in DOMAIN inp :
                 outcome.arr[i][j] = ZeroPadded(jac_dict[i][2][j][2], n3)

\* the chain rule for input j: the sum over all sensors i and elements e of
\* incoming_gradient[i, e] * J[i, j, e]
ChainRule(j) ==
    LET n3 == outcome.shape[3]
    IN SumSeq(List([k \in 1..(outcome.shape[1] * n3) |->
                      outcome.dl_dy[k] *
                      outcome.jac[((k - 1) \div n3) + 1][j][((k - 1) % n3) + 1]]))

\* C14: the gradient the backward pass returns for input j is the sum, over
\* all output sensors i and all elements e, of incoming_gradient[i, e] *
\* J[i, j, e], J being the dense Jacobian saved by the forward pass.
C14_TotalDerivative ==
    outcome.op = "backward" =>
        \A j \in DOMAIN outcome.value :
            outcome.needs_input_grad[j] => outcome.value[j] = Tensor(ChainRule(j))

C14_Witness ==
    /\ outcome.op = "backward"
    /\ outcome.shape[1] = 2
    /\ outcome.shape[3] = 2
    /\ outcome.dl_dy = <<1, 2, 3, 4>>
    /\ \E j \in DOMAIN outcome.value :
          /\ outcome.needs_input_grad[j]
          /\ outcome.value[j].v > outcome.dl_dy[1] * outcome.jac[1][j][1]
                                   + outcome.dl_dy[2] * outcome.jac[1][j][2]

\* C15: the backward pass returns one entry per input of the forward pass,
\* in the same order; the entry is None exactly for the inputs that do not
\* require a gradient, and a number for every input that requires one.
C15_GradientMarkers ==
    outcome.op = "backward" =>
        /\ Len(outcome.value) = Len(inp)
        /\ \A k \in DOMAIN outcome.value :
              /\ (outcome.value[k] = NoGradient) <=> ~outcome.needs_input_grad[k]
              /\ outcome.needs_input_grad[k] =>
                    /\ ~outcome.value[k].none
                    /\ outcome.value[k].v \in Int

C15_Witness ==
    /\ outcome.op = "backward"
    /\ Len(inp) = 2
    /\ \E k, m \in DOMAIN outcome.value :
          /\ outcome.needs_input_grad[k]
          /\ outcome.value[k] = Tensor(0)
          /\ ~outcome.needs_input_grad[m]
          /\ outcome.value[m] = NoGradient
          /\ ChainRule(m) # 0

\* the contribution of one noise model at theta: from the response for its
\* own experiments and from what the problem returns for its own prms_def
ContributionOf(r, noise_model) ==
    SampleCondLikelihood(
        EvaluateModelResponse(theta[r], ExperimentNames(noise_model)),
        GetParameters(theta[r], latent_prms, noise_model))

RECURSIVE SumOver(_, _)
\* the sum of the contributions of a set of noise models
SumOver(r, S) ==
    IF S = {} THEN 0
    ELSE LET noise_model == CHOOSE n \in S : TRUE
         IN ContributionOf(r, noise_model) + SumOver(r, S \ {noise_model})

ThetaAt(r, k) ==
    GetThetaSamples(priors[r], hyperparameters, AdvanceBy(0, (k * Len(priors[r])) % RngMod))

C19_SwapsOutOfOrderPair ==
    [][\A r \in Runs :
          (pc[r] = "for_dep" /\ dependency_dict'[r] # dependency_dict[r]) =>
              LET earlier == lastSwap'[r][1]
                  later == lastSwap'[r][2]
              IN /\ later \in LatentDeps(earlier)
                 /\ IndexOf(Order(r), earlier) < IndexOf(Order(r), later)
                 /\ IndexOf(Order(r)', later) = IndexOf(Order(r), earlier)
                 /\ IndexOf(Order(r)', earlier) = IndexOf(Order(r), later)]_vars

\* C20 as stated: after any bridge forward evaluations and __call__
\* invocations, response_structure, once populated, maps every output-sensor
\* name to the number of elements that sensor produced: an integer count.
C20_StructureHoldsCounts ==
    fm.response_structure # <<>> =>
        LET response_dict == UserResponse(fm.outputs, ZipInput(fm, DValues(inp))).value
        IN /\ DKeys(fm.response_structure) = DKeys(fm.outputs)
           /\ \A i \in DOMAIN fm.response_structure :
                 fm.response_structure[i][2] = [n |-> len_or_one(response_dict[i][2])]

\* the values the declared output sensors take at the inputs of the bridge
DeclaredResponse ==
    UserResponse(fm.outputs, ZipInput(fm, DValues(inp))).value

\* C21 as stated: whatever key order the response mapping uses, the i-th
\* segment of the flattened vector, the one that starts at i times the
\* largest input arity, holds the values of the i-th declared output sensor,
\* the sensor of row i of the dense Jacobian.
C21_DeclarationOrder ==
    (outcome.op = "call" /\ outcome.via = "bridge" /\ outcome.status = "returned") =>
        \A i \in DOMAIN fm.outputs :
            \A e \in 1..len_or_one(DeclaredResponse[i][2]) :
                outcome.value.d[(i - 1) * outcome.shape[3] + e]
                    = At(DeclaredResponse[i][2], e)

\* the dense Jacobian of a forward model at the inputs of one evaluation
DenseJacobianAt(model, in) ==
    JacobianDictToArray(model, in, Jacobian(model, in).value).arr

\* C22: every backward pass uses the Jacobian that the forward pass of the
\* same evaluation saved, the Jacobian of that forward model at that
\* evaluation's inputs, whatever other forward passes of the same or of
\* other forward models were made before the backward pass ran.
C22_OwnJacobian ==
    (outcome.op = "backward" /\ "ctx" \in DOMAIN outcome) =>
        LET own == DenseJacobianAt(outcome.ctx.forward_model, outcome.ctx.inp)
        IN /\ outcome.jac = own
           /\ outcome.value = Backward(own, Size(own), outcome.dl_dy,
                                       outcome.needs_input_grad)

C22_Witness ==
    /\ outcome.op = "backward"
    /\ "ctx" \in DOMAIN outcome
    /\ Len(graph) = 1
    /\ graph[1].forward_model # outcome.ctx.forward_model
    /\ graph[1].saved_tensors # <<outcome.jac>>
    /\ fm.outputs = graph[1].forward_model.outputs
    /\ inp = graph[1].inp

\* some response of the finite-difference evaluation at the inputs of the
\* bridge returns a value that is not finite
NonFiniteResponse ==
    LET in == ZipInput(fm, DValues(inp))
    IN \E j \in DOMAIN in :
          LET h == StepOf(in[j][2])
              response_dict_left == Response(fm, InpLeft(in, j, h))
              response_dict_right == Response(fm, InpRight(in, j, h))
          IN \/ /\ response_dict_left.status = "returned"
                /\ \E k \in DOMAIN response_dict_left.value :
                      response_dict_left.value[k][2].nan
             \/ /\ response_dict_right.status = "returned"
                /\ \E k \in DOMAIN response_dict_right.value :
                      response_dict_right.value[k][2].nan

\* C23 as stated: when the response returns a value that is not finite
\* during the finite-difference evaluation, the forward evaluation ends in an
\* error that reaches the caller: it does not return, neither with a
\* Jacobian in which the entry is replaced by a finite value nor with a
\* Jacobian that holds the entry.
C23_FatalError ==
    (outcome.op = "call" /\ outcome.via = "bridge" /\ NonFiniteResponse) =>
        outcome.status # "returned"

\* C28 as stated: for every input value x the step h is not zero, the two
\* evaluation points x - h and x + h differ and no element of 2h, the
\* divisor, is zero.
C28_StepNonzero ==
    outcome.op = "jacobian" =>
        \A j \in DOMAIN inp :
            LET x == inp[j][2]
                h == StepOf(x)
            IN /\ \A e \in DOMAIN h.d : h.d[e] # 0
               /\ InpLeft(inp, j, h) # InpRight(inp, j, h)
               /\ \A e \in DOMAIN h.d : Times(Scalar(2), h).d[e] # 0

\* the position of a parameter in the declaration order
Declared(p) == IndexOf(latent_prms, p)

\* every latent parameter a prior references is declared before the
\* parameter of the prior
DeclaredInOrder == \A p \in Prms : \A q \in LatentDeps(p) : Declared(q) < Declared(p)

InLoop(r) == pc[r] \in {"while", "for_idx", "for_dep", "failed"}

\* C24: when the declaration order satisfies every dependency the resolver
\* raises no error, swaps nothing and returns the declaration order; and on
\* the order it returned it raises no error, swaps nothing and returns that
\* order again.
C24_InOrderUnchanged ==
    \A r \in Runs :
        /\ (DeclaredInOrder /\ (InLoop(r) \/ LoopFinished(r))) =>
              /\ pc[r] # "failed"
              /\ lastSwap[r] = NoPair
              /\ Order(r) = latent_prms
              /\ \A k \in DOMAIN resolved[r] : resolved[r][k] = latent_prms
        /\ (Len(resolved[r]) = 1 /\ InLoop(r)) =>
              /\ pc[r] # "failed"
              /\ lastSwap[r] = NoPair
              /\ Order(r) = resolved[r][1]
        /\ Len(resolved[r]) = 2 =>
              /\ lastSwap[r] = NoPair
              /\ resolved[r][2] = resolved[r][1]

C24_Witness ==
    /\ Len(resolved[1]) = 2
    /\ pc[1] = "priors"
    /\ resolved[1][1] # latent_prms
    /\ resolved[1][2] = resolved[1][1]
    /\ NumRefs(hyperparameters, NumPrms) >= 2

\* solver.py line 298: theta holds the samples in the order in which
\* get_theta_samples drew them, the order of the priors dict
ThetaNames(r) == priors[r]

\* C25 as stated: whenever theta is handed to the likelihood, its position i
\* holds the sample of the i-th latent parameter in the problem's own order
\* of the latent parameters.
C25_ThetaInProblemOrder ==
    \A r \in Runs :
        pc[r] \in {"mcmc_loglike", "mcmc_accept"} =>
            \A i \in DOMAIN theta[r] : ThetaNames(r)[i] = latent_prms[i]

\* the generator state at the start of the latest pass of a run that is alone
PassStart(r) == AdvanceBy(0, ((n_sampled[r] - 1) * Len(priors[r])) % RngMod)

\* C26: in every pass of get_theta_samples every latent hyperparameter of a
\* prior was sampled earlier in the same pass and the prior is sampled with
\* that sample; problem.parameters[name].value is taken for constants only.
C26_HyperparametersSampledFirst ==
    \A r \in Runs :
        pc[r] \in {"mcmc_loglike", "mcmc_accept"} =>
            LET done == ThetaPass(priors[r], hyperparameters, PassStart(r), EmptyMap)
            IN \A i \in DOMAIN priors[r] :
                  LET ref_prm == priors[r][i]
                      names == hyperparameters[ref_prm]
                  IN /\ done[ref_prm].from_problem \subseteq Consts
                     /\ \A k \in DOMAIN names :
                           names[k] \in Range(latent_prms) =>
                               IndexOf(priors[r], names[k]) < i
                     /\ theta[r][i] =
                           SamplePrior(AdvanceBy(PassStart(r), i - 1),
                               [k \in DOMAIN names |->
                                   IF names[k] \in Range(latent_prms)
                                   THEN theta[r][IndexOf(priors[r], names[k])]
                                   ELSE ConstValue(names[k])])

C26_Witness ==
    /\ pc[1] = "mcmc_accept"
    /\ n_sampled[1] = 2
    /\ priors[1] # latent_prms
    /\ \E p \in Prms :
          /\ Len(hyperparameters[p]) = 2
          /\ 0 \in Range(hyperparameters[p])
          /\ \E q \in LatentDeps(p) :
                /\ q > p
                /\ theta[1][IndexOf(priors[1], q)] # 0
                /\ theta[1][IndexOf(priors[1], q)] # ConstValue(0)

\* C27: at every point of the resolver loop the ordered dependency dictionary
\* holds exactly the latent parameters of the problem, each once and each with
\* the list of latent hyperparameters of its prior: a swap moves items only.
C27_SwapsMoveItemsOnly ==
    \A r \in Runs :
        (InLoop(r) \/ LoopFinished(r)) =>
            LET d == dependency_dict[r]
            IN /\ Len(d) = Len(latent_prms)
               /\ \A p \in Range(latent_prms) :
                     /\ Cardinality({k \in DOMAIN d : d[k][1] = p}) = 1
                     /\ \A k \in DOMAIN d :
                           d[k][1] = p =>
                               d[k][2] = FilterSeq(hyperparameters[p], Range(latent_prms))

C27_Witness ==
    /\ InLoop(1)
    /\ lastSwap[1] # NoPair
    /\ Keys(dependency_dict[1]) # latent_prms
    /\ \E k \in DOMAIN dependency_dict[1] :
          /\ dependency_dict[1][k][1] # latent_prms[k]
          /\ Len(dependency_dict[1][k][2]) = 2

\* C29: a forward evaluation of the bridge installed as the call of a model
\* never runs itself again, and one that returns has invoked the response of
\* the model, and no other of its methods, once and twice more for each
\* entry of the input mapping.
C29_ResponseInvokedDirectly ==
    (outcome.op = "call" /\ outcome.via = "bridge") =>
        /\ outcome.status # "RecursionError"
        /\ outcome.status = "returned" =>
              /\ Len(outcome.calls) = 1 + 2 * Len(ZipInput(fm, DValues(inp)))
              /\ \A i \in DOMAIN outcome.calls : outcome.calls[i] = "response"

C29_Witness ==
    /\ outcome.op = "call"
    /\ outcome.via = "bridge"
    /\ outcome.status = "returned"
    /\ ~CallIsOriginal(fm)
    /\ Len(inp) = 2
    /\ Len(outcome.calls) = 5

\* C30 as stated: whatever the order of the keys of the mapping passed to
\* the bridged call, the mapping rebuilt inside the forward evaluation gives
\* every input sensor name and every parameter name the value the caller
\* supplied under that name.
C30_NamesKeepValues ==
    (/\ outcome.op = "call"
     /\ outcome.via = "bridge"
     /\ outcome.status = "returned"
     /\ Range(Keys(inp)) = Range(fm.input_sensors \o fm.prms)) =>
        LET rebuilt == ZipInput(fm, DValues(inp))
        IN \A k \in DOMAIN inp :
              /\ DHas(rebuilt, inp[k][1])
              /\ DGet(rebuilt, inp[k][1]) = inp[k][2]

====
